---- MODULE Spec2Model ----
(***************************************************************************)
(* Maze search of laberinto.py (run-to-completion solve, Stack and Queue   *)
(* frontiers) and laberintoFinal.py (incremental step, Stack, Queue,       *)
(* Greedy and A* frontiers, and the animation loop of main).               *)
(*                                                                         *)
(* Cells are pairs <<row, col>>, 0-based as in the source.  Python lists   *)
(* are sequences, so walls[r][c] of the source is walls[r + 1][c + 1].     *)
(***************************************************************************)
EXTENDS Integers, Sequences, FiniteSets, TLC

VARIABLES
    maze,            \* the Maze object's parsed grid: height, width, walls, start, goal
    player_pos,      \* Maze.player_pos
    solution,        \* Maze.solution: None or <<actions, cells>>
    num_explored,    \* Maze.num_explored
    explored,        \* Maze.explored
    solution_found,  \* Maze.solution_found (laberintoFinal.py)
    frontier_nodes,  \* Maze.frontier_nodes (laberintoFinal.py)
    frontier,        \* the frontier object in use (None before one is made)
    mode,            \* "solve": laberinto.py Maze.solve; "step": laberintoFinal.py
                     \* solve + step; "main": laberintoFinal.py main; "frontier":
                     \* the frontier classes driven directly
    pc,              \* position of the driver: "new", "loop", "done", "crashed"
    ret,             \* value returned by the last call of solve / step / remove
    err,             \* exception raised and not caught ("none" when there is none)
    solving,         \* main's local solving
    solved,          \* main's local solved
    move_step,       \* main's local move_step
    last,            \* the last command the input layer issued to main
    stalled,         \* main called step on an empty frontier in the current search
    searches,        \* number of "start search" commands issued so far
    log,             \* add / remove calls made on the frontier so far, in order
    maze_text,       \* the lines of the text last handed to Maze.__init__
    call,            \* the last call made on the Maze object: operation and argument
    prev             \* what the search before this one on the same Maze object left

vars == <<maze, player_pos, solution, num_explored, explored, solution_found,
          frontier_nodes, frontier, mode, pc, ret, err, solving, solved,
          move_step, last, stalled, searches, log, maze_text, call, prev>>

(***************************************************************************)
(* Bounds of the model.                                                    *)
(***************************************************************************)
MaxRows == 3
MaxCols == 3
MaxCells == 9
MaxWalls == 3
MaxOpen == 4
MaxOps == 4
MaxSearches == 2

(***************************************************************************)
(* Python's None, for object-valued fields (parent, solution, frontier).   *)
(* The action of the start node is None too; it is kept as the string      *)
(* "None" so that it compares with the direction strings.                  *)
(***************************************************************************)
None == [none |-> TRUE]
NoAction == "None"

Abs(x) == IF x < 0 THEN -x ELSE x

Node(state, parent, action) == [state |-> state, parent |-> parent, action |-> action]

(***************************************************************************)
(* Sorting as list.sort(key=lambda x: x[0]) does it: ascending by the      *)
(* first component, stable (equal keys keep their order).                  *)
(***************************************************************************)
RECURSIVE InsertByKey(_, _)
InsertByKey(sorted, item) ==
    IF sorted = <<>> THEN <<item>>
    ELSE IF item[1] < sorted[Len(sorted)][1]
         THEN Append(InsertByKey(SubSeq(sorted, 1, Len(sorted) - 1), item),
                     sorted[Len(sorted)])
         ELSE Append(sorted, item)

RECURSIVE SortByKey(_)
SortByKey(s) ==
    IF s = <<>> THEN <<>>
    ELSE InsertByKey(SortByKey(SubSeq(s, 1, Len(s) - 1)), s[Len(s)])

(***************************************************************************)
(* The frontier classes.  A frontier object is a record: kind names the    *)
(* class, frontier is its list, and Greedy / A* carry goal (and start,     *)
(* g_costs).  Stack and Queue hold nodes; Greedy and A* hold               *)
(* <<priority, node>> pairs.                                               *)
(***************************************************************************)
StackFrontier == [kind |-> "Stack", frontier |-> <<>>]

QueueFrontier == [kind |-> "Queue", frontier |-> <<>>]

GreedyFrontier(goal) == [kind |-> "Greedy", frontier |-> <<>>, goal |-> goal]

AStarFrontier(start, goal) ==
    [kind |-> "AStar", frontier |-> <<>>, goal |-> goal, start |-> start,
     g_costs |-> (start :> 0)]

StackAdd(f, node) == [f EXCEPT !.frontier = Append(@, node)]

\* QueueAdd putting the node at the left end (appendleft)
QueueAddLeft(f, node) == [f EXCEPT !.frontier = <<node>> \o @]

QueueAdd(f, node) == [f EXCEPT !.frontier = Append(@, node)]

Heuristic(state, goal) == Abs(state[1] - goal[1]) + Abs(state[2] - goal[2])

\* GreedyAdd putting the new item before the items of equal priority
GreedyAddNewestFirst(f, node) ==
    LET priority == Heuristic(node.state, f.goal)
    IN  [f EXCEPT !.frontier = SortByKey(<< <<priority, node>> >> \o @)]

GreedyAdd(f, node) ==
    LET priority == Heuristic(node.state, f.goal)
    IN  [f EXCEPT !.frontier = SortByKey(Append(@, <<priority, node>>))]

\* g_costs[node.parent.state] of AStarFrontier.add raises KeyError
AStarAddRaises(f, node) ==
    node.parent # None /\ node.parent.state \notin DOMAIN f.g_costs

AStarG(f, node) ==
    IF node.parent # None THEN f.g_costs[node.parent.state] + 1 ELSE 0

AStarAdd(f, node) ==
    LET g == AStarG(f, node)
        h == Heuristic(node.state, f.goal)
        fcost == g + h
    IN  [f EXCEPT !.frontier = SortByKey(Append(@, <<fcost, node>>)),
                  !.g_costs = [s \in DOMAIN @ \cup {node.state} |->
                                   IF s = node.state THEN g ELSE @[s]]]

\* StackRemove taking the oldest item instead of the newest
StackRemoveOldest(f) ==
    [node |-> Head(f.frontier), f |-> [f EXCEPT !.frontier = Tail(@)]]

\* remove() of each class on a non-empty frontier: the node returned and the
\* frontier left.  list.pop() takes the last item, deque.popleft() and
\* list.pop(0) the first.
StackRemove(f) ==
    [node |-> f.frontier[Len(f.frontier)],
     f |-> [f EXCEPT !.frontier = SubSeq(@, 1, Len(@) - 1)]]

\* QueueRemove taking the newest item instead of the oldest
QueueRemoveNewest(f) ==
    [node |-> f.frontier[Len(f.frontier)],
     f |-> [f EXCEPT !.frontier = SubSeq(@, 1, Len(@) - 1)]]

QueueRemove(f) ==
    [node |-> Head(f.frontier), f |-> [f EXCEPT !.frontier = Tail(@)]]

GreedyRemove(f) ==
    [node |-> Head(f.frontier)[2], f |-> [f EXCEPT !.frontier = Tail(@)]]

\* AStarRemove taking the item of largest f instead of smallest
AStarRemoveLargest(f) ==
    [node |-> f.frontier[Len(f.frontier)][2],
     f |-> [f EXCEPT !.frontier = SubSeq(@, 1, Len(@) - 1)]]

AStarRemove(f) ==
    [node |-> Head(f.frontier)[2], f |-> [f EXCEPT !.frontier = Tail(@)]]

\* the nodes a frontier holds, in list order
HeldNodes(f) ==
    IF f.kind \in {"Stack", "Queue"} THEN f.frontier
    ELSE [i \in 1..Len(f.frontier) |-> f.frontier[i][2]]

ContainsState(f, state) ==
    \E i \in 1..Len(f.frontier) : HeldNodes(f)[i].state = state

Empty(f) == Len(f.frontier) = 0

\* duck-typed dispatch of frontier.add / frontier.remove
AddRaises(f, node) == f.kind = "AStar" /\ AStarAddRaises(f, node)

Add(f, node) ==
    CASE f.kind = "Stack" -> StackAdd(f, node)
      [] f.kind = "Queue" -> QueueAdd(f, node)
      [] f.kind = "Greedy" -> GreedyAdd(f, node)
      [] f.kind = "AStar" -> AStarAdd(f, node)

Remove(f) ==
    CASE f.kind = "Stack" -> StackRemove(f)
      [] f.kind = "Queue" -> QueueRemove(f)
      [] f.kind = "Greedy" -> GreedyRemove(f)
      [] f.kind = "AStar" -> AStarRemove(f)

Max(S) == CHOOSE x \in S : \A y \in S : y <= x

\* max(len(line) for line in contents)
MaxLineLen(contents) == Max({Len(contents[i]) : i \in 1..Len(contents)})

(***************************************************************************)
(* Maze.__init__ on a text already split into lines (a sequence of rows,   *)
(* each a sequence of one-character strings).                              *)
(***************************************************************************)
CountChar(contents, ch) ==
    Cardinality({<<i, j>> \in (1..Len(contents)) \X (1..MaxLineLen(contents)) :
                    j <= Len(contents[i]) /\ contents[i][j] = ch})

\* MazeInitRaises objecting only to a marker that is missing
MazeInitRaisesWhenMissing(contents) ==
    CountChar(contents, "A") < 1 \/ CountChar(contents, "B") < 1

MazeInitRaises(contents) ==
    CountChar(contents, "A") # 1 \/ CountChar(contents, "B") # 1

\* [(i, j) for i, line in enumerate(contents) for j, cell in enumerate(line)
\*  if cell == ch][0]: the first occurrence in row-major order
FirstChar(contents, ch) ==
    LET hits == {<<i, j>> \in (1..Len(contents)) \X (1..MaxLineLen(contents)) :
                    j <= Len(contents[i]) /\ contents[i][j] = ch}
        first == CHOOSE p \in hits :
                    \A q \in hits : p[1] < q[1] \/ (p[1] = q[1] /\ p[2] <= q[2])
    IN  <<first[1] - 1, first[2] - 1>>

MazeInit(contents) ==
    [height |-> Len(contents),
     width |-> MaxLineLen(contents),
     walls |-> [i \in 1..Len(contents) |->
                  [j \in 1..Len(contents[i]) |->
                      contents[i][j] # " " /\ contents[i][j] # "A"
                          /\ contents[i][j] # "B"]],
     start |-> FirstChar(contents, "A"),
     goal |-> FirstChar(contents, "B")]

(***************************************************************************)
(* Maze.neighbors.  The list comprehension tests the candidates in order;  *)
(* walls[r][c] raises IndexError when row r is shorter than c + 1.         *)
(***************************************************************************)
\* Candidates with the move to the left forgotten
CandidatesNoLeft(state) ==
    LET row == state[1]
        col == state[2]
    IN  << <<"up", <<row - 1, col>> >>, <<"down", <<row + 1, col>> >>,
           <<"right", <<row, col + 1>> >> >>

Candidates(state) ==
    LET row == state[1]
        col == state[2]
    IN  << <<"up", <<row - 1, col>> >>, <<"down", <<row + 1, col>> >>,
           <<"left", <<row, col - 1>> >>, <<"right", <<row, col + 1>> >> >>

InBounds(m, cell) ==
    0 <= cell[1] /\ cell[1] < m.height /\ 0 <= cell[2] /\ cell[2] < m.width

WallsIndexError(m, cell) == cell[2] + 1 > Len(m.walls[cell[1] + 1])

NeighborsRaises(m, state) ==
    \E k \in 1..Len(Candidates(state)) :
        InBounds(m, Candidates(state)[k][2]) /\ WallsIndexError(m, Candidates(state)[k][2])

NeighborOk(m, cand) ==
    InBounds(m, cand[2]) /\ ~m.walls[cand[2][1] + 1][cand[2][2] + 1]

Neighbors(m, state) ==
    LET Keep(cand) == NeighborOk(m, cand)
    IN  SelectSeq(Candidates(state), Keep)

(***************************************************************************)
(* The search driver.                                                      *)
(***************************************************************************)
Reverse(s) == [i \in 1..Len(s) |-> s[Len(s) + 1 - i]]

\* while node.parent: ... node = node.parent -- the nodes walked, goal first
RECURSIVE ChainBack(_)
ChainBack(node) ==
    IF node.parent = None THEN <<>> ELSE <<node>> \o ChainBack(node.parent)

\* Reconstruct with the two reversals forgotten
ReconstructNotReversed(node) ==
    LET chain == ChainBack(node)
        actions == [i \in 1..Len(chain) |-> chain[i].action]
        cells == [i \in 1..Len(chain) |-> chain[i].state]
    IN  <<actions, cells>>

\* the (actions, cells) pair built from the goal node
Reconstruct(node) ==
    LET chain == ChainBack(node)
        actions == [i \in 1..Len(chain) |-> chain[i].action]
        cells == [i \in 1..Len(chain) |-> chain[i].state]
    IN  <<Reverse(actions), Reverse(cells)>>

\* Expand with the test "state not in self.explored" forgotten
RECURSIVE ExpandIgnoringExplored(_, _, _, _, _, _)
ExpandIgnoringExplored(f, nbrs, k, node, expl, added) ==
    IF k > Len(nbrs) THEN [f |-> f, added |-> added, err |-> "none"]
    ELSE LET action == nbrs[k][1]
             state == nbrs[k][2]
             child == Node(state, node, action)
         IN  IF ~ContainsState(f, state)
             THEN IF AddRaises(f, child)
                  THEN [f |-> f, added |-> added, err |-> "KeyError"]
                  ELSE ExpandIgnoringExplored(Add(f, child), nbrs, k + 1, node, expl,
                                              Append(added, child))
             ELSE ExpandIgnoringExplored(f, nbrs, k + 1, node, expl, added)

\* Expand with the test "not frontier.contains_state(state)" forgotten
RECURSIVE ExpandIgnoringFrontier(_, _, _, _, _, _)
ExpandIgnoringFrontier(f, nbrs, k, node, expl, added) ==
    IF k > Len(nbrs) THEN [f |-> f, added |-> added, err |-> "none"]
    ELSE LET action == nbrs[k][1]
             state == nbrs[k][2]
             child == Node(state, node, action)
         IN  IF state \notin expl
             THEN IF AddRaises(f, child)
                  THEN [f |-> f, added |-> added, err |-> "KeyError"]
                  ELSE ExpandIgnoringFrontier(Add(f, child), nbrs, k + 1, node, expl,
                                              Append(added, child))
             ELSE ExpandIgnoringFrontier(f, nbrs, k + 1, node, expl, added)

\* for action, state in self.neighbors(node.state): if not
\* frontier.contains_state(state) and state not in self.explored: add a child.
\* nbrs[k..] are still to do; the result is the frontier, the children added and
\* the exception an add raised.
RECURSIVE Expand(_, _, _, _, _, _)
Expand(f, nbrs, k, node, expl, added) ==
    IF k > Len(nbrs) THEN [f |-> f, added |-> added, err |-> "none"]
    ELSE LET action == nbrs[k][1]
             state == nbrs[k][2]
             child == Node(state, node, action)
         IN  IF ~ContainsState(f, state) /\ state \notin expl
             THEN IF AddRaises(f, child)
                  THEN [f |-> f, added |-> added, err |-> "KeyError"]
                  ELSE Expand(Add(f, child), nbrs, k + 1, node, expl,
                              Append(added, child))
             ELSE Expand(f, nbrs, k + 1, node, expl, added)

\* The fields of the Maze object a search reads and writes, and the frontier.
SearchState ==
    [frontier |-> frontier, num_explored |-> num_explored, explored |-> explored,
     solution |-> solution, solution_found |-> solution_found,
     frontier_nodes |-> frontier_nodes]

\* Step putting the removed cell into explored before the goal test
StepMarkingGoal(m, st) ==
    IF Empty(st.frontier)
    THEN st @@ [ret |-> FALSE, err |-> "none"]
    ELSE LET r == Remove(st.frontier)
             node == r.node
             st2 == [st EXCEPT !.frontier = r.f, !.num_explored = @ + 1,
                               !.explored = @ \cup {node.state}]
         IN  IF node.state = m.goal
             THEN [st2 EXCEPT !.solution = Reconstruct(node),
                              !.solution_found = TRUE]
                      @@ [ret |-> TRUE, err |-> "none"]
             ELSE IF NeighborsRaises(m, node.state)
                  THEN [st2 EXCEPT !.frontier_nodes = <<>>]
                           @@ [ret |-> FALSE, err |-> "IndexError"]
                  ELSE LET e == Expand(st2.frontier, Neighbors(m, node.state), 1,
                                       node, st2.explored, <<>>)
                       IN  [st2 EXCEPT !.frontier = e.f,
                                       !.frontier_nodes = e.added]
                               @@ [ret |-> FALSE, err |-> e.err]

\* Maze.step(frontier) of laberintoFinal.py on state st: the state it leaves,
\* with ret (the value returned) and err (the exception raised, ret then unset).
Step(m, st) ==
    IF Empty(st.frontier)
    THEN st @@ [ret |-> FALSE, err |-> "none"]
    ELSE LET r == Remove(st.frontier)
             node == r.node
             st1 == [st EXCEPT !.frontier = r.f, !.num_explored = @ + 1]
         IN  IF node.state = m.goal
             THEN [st1 EXCEPT !.solution = Reconstruct(node),
                              !.solution_found = TRUE]
                      @@ [ret |-> TRUE, err |-> "none"]
             ELSE LET st2 == [st1 EXCEPT !.explored = @ \cup {node.state}]
                  IN  IF NeighborsRaises(m, node.state)
                      THEN [st2 EXCEPT !.frontier_nodes = <<>>]
                               @@ [ret |-> FALSE, err |-> "IndexError"]
                      ELSE LET e == Expand(st2.frontier, Neighbors(m, node.state), 1,
                                           node, st2.explored, <<>>)
                           IN  [st2 EXCEPT !.frontier = e.f,
                                           !.frontier_nodes = e.added]
                                   @@ [ret |-> FALSE, err |-> e.err]

\* SolveInit leaving explored as the search before left it
SolveInitKeepingExplored(m, f) ==
    [frontier |-> Add(f, Node(m.start, None, NoAction)), num_explored |-> 0,
     explored |-> explored, solution |-> None, solution_found |-> FALSE,
     frontier_nodes |-> <<>>]

\* Maze.solve(frontier) of laberintoFinal.py: the initialisation of a search
SolveInit(m, f) ==
    [frontier |-> Add(f, Node(m.start, None, NoAction)), num_explored |-> 0,
     explored |-> {}, solution |-> None, solution_found |-> FALSE,
     frontier_nodes |-> <<>>]

\* SolveIteration counting a node only after the goal test has failed
SolveIterationCountingLate(m, st) ==
    LET r == Remove(st.frontier)
        node == r.node
        st1 == [st EXCEPT !.frontier = r.f]
    IN  IF node.state = m.goal
        THEN [st1 EXCEPT !.solution = Reconstruct(node)]
                 @@ [done |-> TRUE, ret |-> TRUE, err |-> "none"]
        ELSE LET st2 == [st1 EXCEPT !.explored = @ \cup {node.state},
                                    !.num_explored = @ + 1]
             IN  IF NeighborsRaises(m, node.state)
                 THEN st2 @@ [done |-> TRUE, ret |-> FALSE, err |-> "IndexError"]
                 ELSE LET e == Expand(st2.frontier, Neighbors(m, node.state), 1,
                                      node, st2.explored, <<>>)
                      IN  [st2 EXCEPT !.frontier = e.f]
                              @@ [done |-> e.err # "none", ret |-> FALSE,
                                  err |-> e.err]

\* One pass of the while loop of Maze.solve of laberinto.py, frontier not empty:
\* the state it leaves, done (the loop returned), ret and err.
SolveIteration(m, st) ==
    LET r == Remove(st.frontier)
        node == r.node
        st1 == [st EXCEPT !.frontier = r.f, !.num_explored = @ + 1]
    IN  IF node.state = m.goal
        THEN [st1 EXCEPT !.solution = Reconstruct(node)]
                 @@ [done |-> TRUE, ret |-> TRUE, err |-> "none"]
        ELSE LET st2 == [st1 EXCEPT !.explored = @ \cup {node.state}]
             IN  IF NeighborsRaises(m, node.state)
                 THEN st2 @@ [done |-> TRUE, ret |-> FALSE, err |-> "IndexError"]
                 ELSE LET e == Expand(st2.frontier, Neighbors(m, node.state), 1,
                                      node, st2.explored, <<>>)
                      IN  [st2 EXCEPT !.frontier = e.f]
                              @@ [done |-> e.err # "none", ret |-> FALSE,
                                  err |-> e.err]

(***************************************************************************)
(* The maze texts searched: every rectangular grid of at most MaxRows by   *)
(* MaxCols and at most MaxCells cells with at most MaxWalls walls, every   *)
(* wall-free grid of at most MaxOpen by MaxOpen cells, and every placement *)
(* of the two markers.                                                     *)
(***************************************************************************)
Cells(h, w) == (0..(h - 1)) \X (0..(w - 1))

MazeText(h, w, W, s, g) ==
    [i \in 1..h |->
        [j \in 1..w |->
            IF <<i - 1, j - 1>> = s THEN "A"
            ELSE IF <<i - 1, j - 1>> = g THEN "B"
            ELSE IF <<i - 1, j - 1>> \in W THEN "#"
            ELSE " "]]

TextsFor(h, w, W) ==
    {MazeText(h, w, W, p[1], p[2]) :
        p \in {q \in (Cells(h, w) \ W) \X (Cells(h, w) \ W) : q[1] # q[2]}}

WallSets(h, w) == {W \in SUBSET Cells(h, w) : Cardinality(W) <= MaxWalls}

Shapes == {sh \in (1..MaxRows) \X (1..MaxCols) : sh[1] * sh[2] <= MaxCells}

WalledTexts ==
    UNION {UNION {TextsFor(sh[1], sh[2], W) : W \in WallSets(sh[1], sh[2])} :
              sh \in Shapes}

OpenTexts ==
    UNION {UNION {TextsFor(h, w, {}) : w \in 1..MaxOpen} : h \in 1..MaxOpen}

\* two larger mazes with detours: "B#  \n#   \n  #A\n    " and
\* "  #\n A \n # \n   \n## \nB  "
TrapText ==
    << <<"B", "#", " ", " ">>, <<"#", " ", " ", " ">>, <<" ", " ", "#", "A">>,
       <<" ", " ", " ", " ">> >>

LongWayText ==
    << <<" ", " ", "#">>, <<" ", "A", " ">>, <<" ", "#", " ">>, <<" ", " ", " ">>,
       <<"#", "#", " ">>, <<"B", " ", " ">> >>

SearchTexts == WalledTexts \cup OpenTexts \cup {TrapText, LongWayText}

FrontierKinds == {"Stack", "Queue", "Greedy", "AStar"}

\* a fresh frontier object of each class, as its constructor leaves it
NewFrontier(kind, m) ==
    CASE kind = "Stack" -> StackFrontier
      [] kind = "Queue" -> QueueFrontier
      [] kind = "Greedy" -> GreedyFrontier(m.goal)
      [] kind = "AStar" -> AStarFrontier(m.start, m.goal)

(***************************************************************************)
(* One search on one maze, with a fresh frontier: laberinto.py's           *)
(* solve_dfs / solve_bfs (mode "solve"), or laberintoFinal.py's solve on a *)
(* fresh frontier followed by step calls until one returns True or the     *)
(* frontier is empty (mode "step").                                        *)
(***************************************************************************)
MainIdle ==
    /\ solving = FALSE /\ solved = FALSE /\ move_step = 0
    /\ last = "none" /\ stalled = FALSE /\ searches = 0

\* no call made on the Maze object yet, and no search before this one
NoCall == [op |-> "none", arg |-> None]

ObjectIdle == call = NoCall /\ prev = None

MazeFresh(m) ==
    /\ maze = m
    /\ player_pos = m.start
    /\ solution = None
    /\ num_explored = 0
    /\ explored = {}
    /\ solution_found = FALSE
    /\ frontier_nodes = <<>>

SearchInit ==
    /\ \E contents \in SearchTexts :
          maze_text = contents /\ MazeFresh(MazeInit(contents))
    /\ frontier = None
    /\ mode = "none" /\ pc = "new" /\ ret = FALSE /\ err = "none"
    /\ MainIdle
    /\ ObjectIdle
    /\ log = <<>>

SetSearchState(st) ==
    /\ frontier' = st.frontier
    /\ num_explored' = st.num_explored
    /\ explored' = st.explored
    /\ solution' = st.solution
    /\ solution_found' = st.solution_found
    /\ frontier_nodes' = st.frontier_nodes

\* laberinto.py: solve_dfs / solve_bfs enter solve with a fresh frontier; the
\* lines before the loop.  solution is not reset there.
SolveCall(kind) ==
    /\ pc = "new"
    /\ kind \in {"Stack", "Queue"}
    /\ mode' = "solve"
    /\ pc' = "loop"
    /\ frontier' = Add(NewFrontier(kind, maze), Node(maze.start, None, NoAction))
    /\ num_explored' = 0
    /\ explored' = {}
    /\ UNCHANGED <<maze_text, call, prev, maze, player_pos, solution, solution_found, frontier_nodes, ret,
                   err, solving, solved, move_step, last, stalled, searches, log>>

\* laberinto.py: one pass of the loop of solve, or its return False
SolveLoop ==
    /\ pc = "loop" /\ mode = "solve"
    /\ IF Empty(frontier)
       THEN /\ ret' = FALSE /\ pc' = "done"
            /\ UNCHANGED <<frontier, num_explored, explored, solution,
                           solution_found, frontier_nodes, err>>
       ELSE \E out \in {SolveIteration(maze, SearchState)} :
                /\ SetSearchState(out)
                /\ ret' = out.ret
                /\ err' = out.err
                /\ pc' = IF out.err # "none" THEN "crashed"
                         ELSE IF out.done THEN "done" ELSE "loop"
    /\ UNCHANGED <<maze_text, call, prev, maze, player_pos, mode, solving, solved, move_step, last,
                   stalled, searches, log>>

\* laberintoFinal.py: a fresh frontier of the strategy is made and handed to solve
StartSearch(kind) ==
    /\ pc = "new"
    /\ kind \in FrontierKinds
    /\ mode' = "step"
    /\ pc' = "loop"
    /\ SetSearchState(SolveInit(maze, NewFrontier(kind, maze)))
    /\ UNCHANGED <<maze_text, call, prev, maze, player_pos, ret, err, solving, solved, move_step, last,
                   stalled, searches, log>>

\* laberintoFinal.py: one call of step; the caller stops calling once a call
\* returned True or left the frontier empty
StepCall ==
    /\ pc = "loop" /\ mode = "step"
    /\ \E out \in {Step(maze, SearchState)} :
           /\ SetSearchState(out)
           /\ ret' = out.ret
           /\ err' = out.err
           /\ pc' = IF out.err # "none" THEN "crashed"
                    ELSE IF out.ret \/ Empty(out.frontier) THEN "done" ELSE "loop"
    /\ UNCHANGED <<maze_text, call, prev, maze, player_pos, mode, solving, solved, move_step, last,
                   stalled, searches, log>>

SearchNext ==
    \/ \E kind \in {"Stack", "Queue"} : SolveCall(kind)
    \/ SolveLoop
    \/ \E kind \in FrontierKinds : StartSearch(kind)
    \/ StepCall

SpecSearch == SearchInit /\ [][SearchNext]_vars

(***************************************************************************)
(* What the claims about a search are measured against: reachability and   *)
(* distance in the grid, defined on the maze alone.                        *)
(***************************************************************************)
FreeCells(m) ==
    {c \in Cells(m.height, m.width) :
        c[2] + 1 <= Len(m.walls[c[1] + 1]) /\ ~m.walls[c[1] + 1][c[2] + 1]}

Adjacent(c, d) == Abs(c[1] - d[1]) + Abs(c[2] - d[2]) = 1

Around(m, S) == {d \in FreeCells(m) : \E c \in S : Adjacent(c, d)}

RECURSIVE Closure(_, _)
Closure(m, S) ==
    LET T == S \cup Around(m, S)
    IN  IF T = S THEN S ELSE Closure(m, T)

ReachableCells(m) == Closure(m, {m.start})

GoalReachable(m) == m.goal \in ReachableCells(m)

\* number of moves of a shortest path from the cells of S (already d moves from
\* the start) to the goal; -1 when there is none
RECURSIVE DistFrom(_, _, _, _)
DistFrom(m, S, seen, d) ==
    IF m.goal \in S THEN d
    ELSE IF S = {} THEN -1
    ELSE DistFrom(m, Around(m, S) \ (seen \cup S), seen \cup S, d + 1)

ShortestDist(m) == DistFrom(m, {m.start}, {}, 0)

MoveTo(cell, action) ==
    CASE action = "up" -> <<cell[1] - 1, cell[2]>>
      [] action = "down" -> <<cell[1] + 1, cell[2]>>
      [] action = "left" -> <<cell[1], cell[2] - 1>>
      [] action = "right" -> <<cell[1], cell[2] + 1>>
      [] OTHER -> cell

ValidPath(m, sol) ==
    LET actions == sol[1]
        cells == sol[2]
    IN  /\ Len(actions) = Len(cells)
        /\ Len(cells) >= 1
        /\ cells[Len(cells)] = m.goal
        /\ \A i \in 1..Len(cells) :
              /\ cells[i] \in FreeCells(m)
              /\ cells[i] # m.start
              /\ actions[i] \in {"up", "down", "left", "right"}
              /\ cells[i] = MoveTo(IF i = 1 THEN m.start ELSE cells[i - 1], actions[i])

Succeeded == pc = "done" /\ ret = TRUE

\* the maze of the scenario "A  \n ##\n  B"
ExampleText ==
    << <<"A", " ", " ">>, <<" ", "#", "#">>, <<" ", " ", "B">> >>

\* C1: a search run to completion on a fresh frontier never crashes, succeeds
\* if and only if the goal is reachable from the start through non-wall cells,
\* and on an unreachable goal reports failure and leaves solution None.
C1_SuccessIffReachable ==
    /\ pc # "crashed"
    /\ pc = "done" =>
          /\ (ret = TRUE) <=> GoalReachable(maze)
          /\ ~GoalReachable(maze) => (ret = FALSE /\ solution = None)

C1_Witness ==
    /\ pc = "done" /\ mode = "solve"
    /\ ~GoalReachable(maze)
    /\ ret = FALSE /\ solution = None
    /\ Cardinality(explored) >= 3

\* C2: whenever a search reports success, the stored solution is a valid path:
\* as many actions as cells, the start cell left out, the goal last, every cell
\* in bounds and no wall, each cell the one its action leads to from the cell
\* before it (from the start for the first).
C2_SolutionIsValidPath ==
    Succeeded => (solution # None /\ ValidPath(maze, solution))

C2_Witness ==
    /\ Succeeded /\ mode = "step" /\ frontier.kind = "Stack"
    /\ maze = MazeInit(ExampleText)
    /\ Len(solution[2]) >= 4
    /\ ValidPath(maze, solution)

\* C3: with the Queue frontier a solution found has the least possible number
\* of steps, the shortest-path distance from start to goal.
C3_QueueFindsShortest ==
    (Succeeded /\ frontier.kind = "Queue") =>
        Len(solution[2]) = ShortestDist(maze)

C3_Witness ==
    /\ Succeeded /\ frontier.kind = "Queue"
    /\ maze = MazeInit(ExampleText)
    /\ solution[1] = <<"down", "down", "right", "right">>
    /\ Len(solution[2]) = 4

NoWalls(m) == FreeCells(m) = Cells(m.height, m.width)

\* C4: with the A* frontier on a grid without walls the solution is as long as
\* the Manhattan distance between start and goal.
C4_AStarOpenGridManhattan ==
    (Succeeded /\ frontier.kind = "AStar" /\ NoWalls(maze)) =>
        Len(solution[2]) = Abs(maze.start[1] - maze.goal[1])
                               + Abs(maze.start[2] - maze.goal[2])

C4_Witness ==
    /\ Succeeded /\ frontier.kind = "AStar" /\ NoWalls(maze)
    /\ maze.height = MaxOpen /\ maze.width = MaxOpen
    /\ maze.start = <<0, 0>> /\ maze.goal = <<MaxOpen - 1, MaxOpen - 1>>
    /\ Len(solution[2]) = 2 * (MaxOpen - 1)

\* C5: a search ends: every pass of the loop of solve, and every step call
\* made while the search is on, either ends the search (success, or the
\* frontier empty) or removes one more node and puts one cell that was not
\* explored before into explored, which never holds more than the maze's free
\* cells; so there are at most that many passes.
C5_EveryPassEndsOrExploresNewCell ==
    [][pc = "loop" =>
          \/ pc' = "done"
          \/ /\ pc' = "loop"
             /\ num_explored' = num_explored + 1
             /\ explored \subseteq explored'
             /\ Cardinality(explored') = Cardinality(explored) + 1
             /\ explored' \subseteq FreeCells(maze)
             /\ num_explored' <= Cardinality(FreeCells(maze))]_vars

C5_Witness ==
    /\ pc = "done" /\ mode = "step" /\ ret = FALSE
    /\ Empty(frontier)
    /\ num_explored >= 5

\* number of moves of a shortest path from the cells of S (already d moves
\* from the start) to target; -1 when there is none
RECURSIVE StepsTo(_, _, _, _, _)
StepsTo(m, target, S, seen, d) ==
    IF target \in S THEN d
    ELSE IF S = {} THEN -1
    ELSE StepsTo(m, target, Around(m, S) \ (seen \cup S), seen \cup S, d + 1)

DistFromStart(m, cell) == StepsTo(m, cell, {m.start}, {}, 0)

\* C15: in every A* search, on mazes with or without walls, the path cost g
\* recorded for a cell when it is put into the frontier is the shortest-path
\* distance from the start to that cell, and the path A* returns is a shortest
\* path.
C15_AStarCostsAreShortest ==
    (mode = "step" /\ frontier.kind = "AStar") =>
        /\ \A s \in DOMAIN frontier.g_costs :
              frontier.g_costs[s] = DistFromStart(maze, s)
        /\ Succeeded => Len(solution[2]) = ShortestDist(maze)

Range(s) == {s[i] : i \in 1..Len(s)}

\* the cells of free that moves through free lead to from the cells of seen,
\* those of fresh being the ones found last
RECURSIVE Flood(_, _, _)
Flood(free, seen, fresh) ==
    IF fresh = {} THEN seen
    ELSE LET found == {d \in free \ seen : \E c \in fresh : Adjacent(c, d)}
         IN  Flood(free, seen \cup found, found)

\* the cells of the nodes a frontier holds, in list order
HeldCells(f) == [i \in 1..Len(f.frontier) |-> HeldNodes(f)[i].state]

\* C20: duplicate suppression: in every state of one search on a fresh
\* frontier no two nodes of the frontier have the same cell, no cell of the
\* frontier is in explored, every cell of the frontier is reachable from the
\* start, and no cell is removed from the frontier twice: a pass that removes a
\* node either finds the goal or puts a cell into explored that was not there.
C20_NoDuplicateNoReexpansion ==
    [][(mode' \in {"solve", "step"}) =>
          /\ \E cells \in {Range(HeldCells(frontier'))} :
                /\ Cardinality(cells) = Len(frontier'.frontier)
                /\ cells \cap explored' = {}
                /\ cells \subseteq Flood(FreeCells(maze), {maze.start}, {maze.start})
          /\ (pc = "loop" /\ num_explored' = num_explored + 1) =>
                \/ ret' = TRUE /\ explored' = explored
                \/ /\ ret' = FALSE
                   /\ Cardinality(explored') = Cardinality(explored) + 1]_<<pc, ret, frontier, explored, num_explored, mode>>

\* a search under way with three nodes waiting and three cells explored
C20_Witness ==
    /\ mode = "step" /\ pc = "loop" /\ frontier.kind = "Queue"
    /\ Len(frontier.frontier) >= 3
    /\ Cardinality(explored) >= 3

\* C23: during one search started on a fresh frontier and advanced until the
\* goal is found or the frontier is empty, num_explored is the number of cells
\* in explored, plus one once the goal has been found; and the goal cell is
\* never in explored.
C23_NumExploredCountsExploredAndGoal ==
    (mode \in {"solve", "step"}) =>
        /\ num_explored = Cardinality(explored) + (IF Succeeded THEN 1 ELSE 0)
        /\ (mode = "step") => (solution_found <=> Succeeded)
        /\ maze.goal \notin explored

\* an A* search that found the goal as the sixth node removed, five cells
\* explored before it
C23_Witness ==
    /\ mode = "step" /\ Succeeded /\ frontier.kind = "AStar"
    /\ solution_found
    /\ Cardinality(explored) = 5 /\ num_explored = 6
    /\ maze.goal \notin explored

(***************************************************************************)
(* The frontier classes driven directly: a fresh frontier of one class,    *)
(* then at most MaxOps calls of add and remove in any order.  A call that  *)
(* raises leaves the object as it was and the caller goes on.  log keeps   *)
(* every call: the operation, its node (given to add, returned by remove)  *)
(* and the exception it raised.                                            *)
(***************************************************************************)
TestStart == <<0, 0>>

TestGoal == <<2, 2>>

TestNodes ==
    LET root(s) == Node(s, None, NoAction)
    IN  {root(<<0, 0>>), root(<<0, 1>>), root(<<1, 1>>),
         Node(<<0, 1>>, root(<<0, 0>>), "right"),
         Node(<<1, 1>>, root(<<0, 1>>), "down")}

Call(op, node, e) == [op |-> op, node |-> node, err |-> e]

FrontierInit ==
    /\ maze_text = ExampleText
    /\ MazeFresh(MazeInit(ExampleText))
    /\ ObjectIdle
    /\ \E kind \in FrontierKinds :
          frontier = NewFrontier(kind, [start |-> TestStart, goal |-> TestGoal])
    /\ mode = "frontier" /\ pc = "new" /\ ret = None /\ err = "none"
    /\ MainIdle
    /\ log = <<>>

\* frontier.add(node)
FrontierAdd(node) ==
    /\ mode = "frontier"
    /\ Len(log) < MaxOps
    /\ IF AddRaises(frontier, node)
       THEN /\ err' = "KeyError"
            /\ UNCHANGED frontier
       ELSE /\ err' = "none"
            /\ frontier' = Add(frontier, node)
    /\ ret' = None
    /\ log' = Append(log, Call("add", node, err'))
    /\ UNCHANGED <<maze_text, call, prev, maze, player_pos, solution, num_explored, explored,
                   solution_found, frontier_nodes, mode, pc, solving, solved,
                   move_step, last, stalled, searches>>

\* frontier.remove(): raise Exception("empty frontier") on an empty frontier
FrontierRemove ==
    /\ mode = "frontier"
    /\ Len(log) < MaxOps
    /\ IF Empty(frontier)
       THEN /\ err' = "Exception"
            /\ ret' = None
            /\ UNCHANGED frontier
       ELSE /\ err' = "none"
            /\ ret' = Remove(frontier).node
            /\ frontier' = Remove(frontier).f
    /\ log' = Append(log, Call("remove", ret', err'))
    /\ UNCHANGED <<maze_text, call, prev, maze, player_pos, solution, num_explored, explored,
                   solution_found, frontier_nodes, mode, pc, solving, solved,
                   move_step, last, stalled, searches>>

FrontierNext ==
    \/ \E node \in TestNodes : FrontierAdd(node)
    \/ FrontierRemove

SpecFrontier == FrontierInit /\ [][FrontierNext]_vars

(***************************************************************************)
(* What the frontier claims are measured against, read off the log alone:  *)
(* the adds still held after the first k calls, when every remove that     *)
(* returned took the newest (policy "newest") or the oldest ("oldest").    *)
(***************************************************************************)
Min(S) == CHOOSE x \in S : \A y \in S : x <= y

RECURSIVE Unremoved(_, _, _)
Unremoved(calls, k, policy) ==
    IF k = 0 THEN {}
    ELSE LET U == Unremoved(calls, k - 1, policy)
         IN  IF calls[k].err # "none" THEN U
             ELSE IF calls[k].op = "add" THEN U \cup {k}
             ELSE IF U = {} THEN U
             ELSE U \ {IF policy = "newest" THEN Max(U) ELSE Min(U)}

\* number of nodes held after the first k calls
HeldAfter(calls, k) == Cardinality(Unremoved(calls, k, "newest"))

LastCall == log[Len(log)]

\* C8: for each of the four classes, remove() on an empty frontier raises and
\* returns nothing; add(n) on an empty frontier, for any node n, succeeds, and
\* a remove() right after it returns n and leaves the frontier empty.
C8_EmptyRemoveRaisesAddRemoveReturns ==
    (mode = "frontier" /\ log # <<>>) =>
        /\ (LastCall.op = "remove" /\ HeldAfter(log, Len(log) - 1) = 0) =>
              (LastCall.err # "none" /\ LastCall.node = None)
        /\ (LastCall.op = "add" /\ HeldAfter(log, Len(log) - 1) = 0) =>
              (LastCall.err = "none" /\ HeldNodes(frontier) = <<LastCall.node>>)
        /\ (/\ Len(log) >= 2
            /\ LastCall.op = "remove"
            /\ log[Len(log) - 1].op = "add"
            /\ log[Len(log) - 1].err = "none"
            /\ HeldAfter(log, Len(log) - 2) = 0) =>
              /\ LastCall.err = "none"
              /\ LastCall.node = log[Len(log) - 1].node
              /\ Empty(frontier)

\* C9: the Stack frontier is LIFO: after any calls of add and remove, a
\* remove() returns the most recently added node not yet removed.
C9_StackIsLifo ==
    (mode = "frontier" /\ frontier.kind = "Stack" /\ log # <<>>
        /\ LastCall.op = "remove") =>
        LET U == Unremoved(log, Len(log) - 1, "newest")
        IN  IF U = {} THEN LastCall.err # "none"
            ELSE LastCall.err = "none" /\ LastCall.node = log[Max(U)].node

\* add A, add B, remove, remove: B then A
C9_Witness ==
    /\ mode = "frontier" /\ frontier.kind = "Stack"
    /\ Len(log) = 4
    /\ log[1].op = "add" /\ log[2].op = "add"
    /\ log[3].op = "remove" /\ log[4].op = "remove"
    /\ log[1].node # log[2].node
    /\ log[3].node = log[2].node /\ log[4].node = log[1].node

\* C10: the Queue frontier is FIFO: after any calls of add and remove, a
\* remove() returns the earliest added node not yet removed.
C10_QueueIsFifo ==
    (mode = "frontier" /\ frontier.kind = "Queue" /\ log # <<>>
        /\ LastCall.op = "remove") =>
        LET U == Unremoved(log, Len(log) - 1, "oldest")
        IN  IF U = {} THEN LastCall.err # "none"
            ELSE LastCall.err = "none" /\ LastCall.node = log[Min(U)].node

\* add A, add B, remove, remove: A then B
C10_Witness ==
    /\ mode = "frontier" /\ frontier.kind = "Queue"
    /\ Len(log) = 4
    /\ log[1].op = "add" /\ log[2].op = "add"
    /\ log[3].op = "remove" /\ log[4].op = "remove"
    /\ log[1].node # log[2].node
    /\ log[3].node = log[1].node /\ log[4].node = log[2].node

\* Manhattan distance between two cells
Manhattan(c, d) ==
    (IF c[1] < d[1] THEN d[1] - c[1] ELSE c[1] - d[1])
        + (IF c[2] < d[2] THEN d[2] - c[2] ELSE c[2] - d[2])

\* of the adds S (indices into calls), the one a Greedy remove is to take: the
\* least distance to the goal first, the earliest add among those
NearestEarliest(calls, S, goal) ==
    CHOOSE i \in S :
        \A j \in S :
            \/ Manhattan(calls[i].node.state, goal) < Manhattan(calls[j].node.state, goal)
            \/ /\ Manhattan(calls[i].node.state, goal) = Manhattan(calls[j].node.state, goal)
               /\ i <= j

\* the adds still held after the first k calls when every remove that returned
\* took the nearest, earliest one
RECURSIVE UnremovedNearest(_, _, _)
UnremovedNearest(calls, k, goal) ==
    IF k = 0 THEN {}
    ELSE LET U == UnremovedNearest(calls, k - 1, goal)
         IN  IF calls[k].err # "none" THEN U
             ELSE IF calls[k].op = "add" THEN U \cup {k}
             ELSE IF U = {} THEN U
             ELSE U \ {NearestEarliest(calls, U, goal)}

\* C16: the Greedy frontier: after any calls of add and remove, a remove()
\* returns a held node whose Manhattan distance to the goal is least among the
\* held nodes, and of the held nodes at that distance the one added first;
\* parents (path cost) play no part.
C16_GreedyTakesNearestEarliest ==
    (mode = "frontier" /\ frontier.kind = "Greedy" /\ log # <<>>
        /\ LastCall.op = "remove") =>
        LET U == UnremovedNearest(log, Len(log) - 1, TestGoal)
        IN  IF U = {} THEN LastCall.err # "none"
            ELSE /\ LastCall.err = "none"
                 /\ LastCall.node = log[NearestEarliest(log, U, TestGoal)].node

\* add a far node, then two different nodes of one nearer cell, remove: the
\* first of the two nearer ones comes out
C16_Witness ==
    /\ mode = "frontier" /\ frontier.kind = "Greedy"
    /\ Len(log) = 4
    /\ log[1].op = "add" /\ log[2].op = "add" /\ log[3].op = "add"
    /\ log[4].op = "remove"
    /\ log[2].node.state = log[3].node.state
    /\ log[2].node # log[3].node
    /\ Manhattan(log[2].node.state, TestGoal) < Manhattan(log[1].node.state, TestGoal)
    /\ log[4].node = log[2].node

(***************************************************************************)
(* Maze.move_player.  An unknown direction makes .get return None and the  *)
(* call a no-op; walls[r][c] raises IndexError on a row shorter than c + 1.*)
(***************************************************************************)
Directions == {"up", "down", "left", "right"}

NewPos(pos, direction) ==
    CASE direction = "up" -> <<pos[1] - 1, pos[2]>>
      [] direction = "down" -> <<pos[1] + 1, pos[2]>>
      [] direction = "left" -> <<pos[1], pos[2] - 1>>
      [] direction = "right" -> <<pos[1], pos[2] + 1>>

MovePlayerRaises(m, pos, direction) ==
    /\ direction \in Directions
    /\ InBounds(m, NewPos(pos, direction))
    /\ WallsIndexError(m, NewPos(pos, direction))

\* MovePlayer with the test of walls forgotten
MovePlayerThroughWalls(m, pos, direction) ==
    IF direction \in Directions /\ InBounds(m, NewPos(pos, direction))
    THEN NewPos(pos, direction)
    ELSE pos

MovePlayer(m, pos, direction) ==
    IF direction \in Directions
       /\ InBounds(m, NewPos(pos, direction))
       /\ ~m.walls[NewPos(pos, direction)[1] + 1][NewPos(pos, direction)[2] + 1]
    THEN NewPos(pos, direction)
    ELSE pos

(***************************************************************************)
(* main of laberintoFinal.py: the event handlers and the rest of the frame.*)
(* The maze files are not part of the repository; MainTexts stands for     *)
(* them.  An uncaught exception ends the program (pc = "crashed").  At     *)
(* most MaxSearches searches are started.                                  *)
(***************************************************************************)
ImpossibleText ==
    << <<"A", " ", "#">>, <<" ", "#", "B">>, <<" ", " ", "#">> >>

DetourText ==
    << <<"A", "#", "B">>, <<" ", " ", " ">> >>

MainTexts == {ExampleText, ImpossibleText, DetourText}

SolverTexts == {"dfs", "bfs", "greedy", "astar"}

MainInit ==
    /\ \E contents \in MainTexts :
          maze_text = contents /\ MazeFresh(MazeInit(contents))
    /\ frontier = None
    /\ mode = "main" /\ pc = "running" /\ ret = FALSE /\ err = "none"
    /\ MainIdle
    /\ ObjectIdle
    /\ log = <<>>

\* KEYDOWN with an arrow key: maze.move_player(direction)
KeyArrow(direction) ==
    /\ mode = "main" /\ pc = "running"
    /\ IF MovePlayerRaises(maze, player_pos, direction)
       THEN pc' = "crashed" /\ err' = "IndexError" /\ UNCHANGED player_pos
       ELSE /\ player_pos' = MovePlayer(maze, player_pos, direction)
            /\ UNCHANGED <<pc, err>>
    /\ last' = "key"
    /\ UNCHANGED <<maze_text, call, prev, maze, solution, num_explored, explored, solution_found,
                   frontier_nodes, frontier, mode, ret, solving, solved,
                   move_step, stalled, searches, log>>

\* KEYDOWN with Escape: running = False
KeyEscape ==
    /\ mode = "main" /\ pc = "running"
    /\ pc' = "quit"
    /\ last' = "escape"
    /\ UNCHANGED <<maze_text, call, prev, maze, player_pos, solution, num_explored, explored,
                   solution_found, frontier_nodes, frontier, mode, ret, err,
                   solving, solved, move_step, stalled, searches, log>>

\* The frontier main hands to maze.solve after the if / elif chain: a new Stack
\* or Queue frontier for the first two entries; for Greedy and A* the local
\* variable frontier is not assigned (solve_greedy and solve_a_star make their
\* own frontier, initialise the search on it and drop it).
FrontierAfterChoice(text, f) ==
    CASE text = "dfs" -> StackFrontier
      [] text = "bfs" -> QueueFrontier
      [] text = "greedy" -> f
      [] text = "astar" -> f

\* the solve_selector entry changed
SolveSelected(text) ==
    /\ mode = "main" /\ pc = "running"
    /\ searches < MaxSearches
    /\ searches' = searches + 1
    /\ last' = text
    /\ LET f == FrontierAfterChoice(text, frontier)
       IN  IF f = None
           THEN \* solve_greedy / solve_a_star ran; frontier.add raises in solve
                /\ SetSearchState([SolveInit(maze, NewFrontier("Greedy", maze))
                                      EXCEPT !.frontier = None])
                /\ pc' = "crashed"
                /\ err' = "AttributeError"
                /\ UNCHANGED <<solving, solved, move_step, stalled>>
           ELSE /\ SetSearchState(SolveInit(maze, f))
                /\ solving' = TRUE
                /\ solved' = FALSE
                /\ move_step' = 0
                /\ stalled' = FALSE
                /\ UNCHANGED <<pc, err>>
    /\ UNCHANGED <<maze_text, call, prev, maze, player_pos, mode, ret, log>>

\* the maze_selector entry changed: a new Maze object; frontier is kept
MazeSelected(contents) ==
    /\ mode = "main" /\ pc = "running"
    /\ IF MazeInitRaises(contents)
       THEN /\ pc' = "crashed" /\ err' = "Exception"
            /\ UNCHANGED <<maze, player_pos, solution, num_explored, explored,
                           solution_found, frontier_nodes, solving, solved,
                           move_step, stalled>>
       ELSE /\ maze' = MazeInit(contents)
            /\ player_pos' = maze'.start
            /\ solution' = None
            /\ num_explored' = 0
            /\ solution_found' = FALSE
            /\ explored' = {}
            /\ frontier_nodes' = <<>>
            /\ solving' = FALSE
            /\ solved' = FALSE
            /\ move_step' = 0
            /\ stalled' = FALSE
            /\ UNCHANGED <<pc, err>>
    /\ last' = "maze"
    /\ maze_text' = contents
    /\ UNCHANGED <<frontier, mode, ret, searches, log, call, prev>>

\* The frame after the events: one step of the search while solving and not
\* solved, then one move of the player along the solution found.
Frame ==
    /\ mode = "main" /\ pc = "running"
    /\ last' = "frame"
    /\ \E out \in {IF solving /\ ~solved THEN Step(maze, SearchState)
                    ELSE SearchState @@ [ret |-> ret, err |-> "none"]} :
       LET stepping == solving /\ ~solved
           walking == out.solution_found /\ move_step < Len(out.solution[2])
           at_target == player_pos = out.solution[2][move_step + 1]
           step1 == IF walking /\ at_target THEN move_step + 1 ELSE move_step
       IN  /\ SetSearchState(out)
           /\ ret' = out.ret
           /\ solving' = IF stepping THEN ~out.ret ELSE solving
           /\ stalled' = (stalled \/ (stepping /\ Empty(frontier)))
           /\ IF out.err # "none"
              THEN /\ pc' = "crashed" /\ err' = out.err
                   /\ UNCHANGED <<player_pos, move_step, solved>>
              ELSE /\ UNCHANGED <<pc, err>>
                   /\ player_pos' =
                         IF walking /\ ~at_target
                         THEN MovePlayer(maze, player_pos, out.solution[1][move_step + 1])
                         ELSE player_pos
                   /\ move_step' = step1
                   /\ solved' = IF walking /\ step1 = Len(out.solution[2])
                                 THEN TRUE ELSE solved
    /\ UNCHANGED <<maze_text, call, prev, maze, mode, searches, log>>

MainNext ==
    \/ \E direction \in Directions : KeyArrow(direction)
    \/ KeyEscape
    \/ \E text \in SolverTexts : SolveSelected(text)
    \/ \E contents \in MainTexts : MazeSelected(contents)
    \/ Frame

SpecMain == MainInit /\ [][MainNext]_vars

\* The while loop of main runs a frame after the events for as long as the
\* program runs, whatever the input layer does: a frame that would change the
\* program's state is not put off for ever.
SpecMainFair ==
    /\ MainInit
    /\ [][MainNext]_vars
    /\ WF_<<last, pc, num_explored, explored, frontier_nodes, solution_found,
            solving, solved, move_step, player_pos, stalled>>(Frame)

\* C22: in the animation loop, once the search has found a solution (and as
\* long as the input layer issues no further command and the program runs),
\* the player comes to stand on the goal cell with main's solved flag set,
\* wherever directional commands had moved the player before.
C22_PlayerWalksToGoalAfterSolution ==
    (mode = "main" /\ pc = "running" /\ solution_found /\ last = "frame")
        ~> \/ solved /\ player_pos = maze.goal
           \/ last # "frame"
           \/ pc # "running"

(***************************************************************************)
(* One Maze object used beyond one search: after a search has ended the    *)
(* caller may call step again without calling solve (laberintoFinal.py),   *)
(* and may run the same search again on a fresh frontier of the same class *)
(* (at most MaxRepeats times).  The mazes are the grids of at most         *)
(* MaxSessionCells cells with at most MaxSessionWalls walls, those of main *)
(* and the two larger ones.                                                *)
(***************************************************************************)
MaxSessionCells == 6

MaxSessionWalls == 1

MaxRepeats == 1

SessionTexts ==
    UNION {UNION {TextsFor(sh[1], sh[2], W) :
                     W \in {V \in SUBSET Cells(sh[1], sh[2]) :
                               Cardinality(V) <= MaxSessionWalls}} :
              sh \in {d \in Shapes : d[1] * d[2] <= MaxSessionCells}}
        \cup MainTexts \cup {TrapText, LongWayText}

SessionInit ==
    /\ \E contents \in SessionTexts :
          maze_text = contents /\ MazeFresh(MazeInit(contents))
    /\ frontier = None
    /\ mode = "none" /\ pc = "new" /\ ret = FALSE /\ err = "none"
    /\ MainIdle
    /\ ObjectIdle
    /\ log = <<>>

\* what a search that has ended left: its result and the solution stored
Outcome == [ret |-> ret, solution |-> solution]

\* laberintoFinal.py: maze.step(frontier) called after the search has ended
StepAfterEnd ==
    /\ mode = "step" /\ pc \in {"done", "after"}
    /\ prev' = IF pc = "done" THEN Outcome ELSE prev
    /\ \E out \in {Step(maze, SearchState)} :
           /\ SetSearchState(out)
           /\ ret' = out.ret
           /\ err' = out.err
           /\ pc' = IF out.err # "none" THEN "crashed" ELSE "after"
    /\ UNCHANGED <<maze, player_pos, mode, solving, solved, move_step, last,
                   stalled, searches, log, maze_text, call>>

\* the same search once more on the same Maze object: solve_dfs / solve_bfs of
\* laberinto.py again, or solve of laberintoFinal.py on a new frontier of the
\* class used before
SearchAgain ==
    /\ mode \in {"solve", "step"} /\ pc \in {"done", "after"}
    /\ searches < MaxRepeats
    /\ searches' = searches + 1
    /\ prev' = IF pc = "done" THEN Outcome ELSE prev
    /\ pc' = "loop"
    /\ IF mode = "solve"
       THEN /\ frontier' = Add(NewFrontier(frontier.kind, maze),
                               Node(maze.start, None, NoAction))
            /\ num_explored' = 0
            /\ explored' = {}
            /\ UNCHANGED <<solution, solution_found, frontier_nodes>>
       ELSE SetSearchState(SolveInit(maze, NewFrontier(frontier.kind, maze)))
    /\ UNCHANGED <<maze, player_pos, mode, ret, err, solving, solved, move_step,
                   last, stalled, log, maze_text, call>>

SessionNext ==
    \/ SearchNext
    \/ StepAfterEnd
    \/ SearchAgain

SpecSession == SessionInit /\ [][SessionNext]_vars

\* C14: searching is repeatable: a search run again on the same unmodified
\* maze, again on a fresh frontier of the same strategy, ends with the same
\* result (success or failure) and the same solution, actions and cells, as
\* the search before it.
C14_SearchAgainGivesSameSolution ==
    (mode \in {"solve", "step"} /\ pc = "done" /\ searches >= 1) =>
        (ret = prev.ret /\ solution = prev.solution)

\* the Greedy search of the example maze done a second time, found again
C14_Witness ==
    /\ mode = "step" /\ pc = "done" /\ searches = 1
    /\ frontier.kind = "Greedy"
    /\ maze_text = ExampleText
    /\ prev.ret = TRUE /\ ret = TRUE
    /\ solution = prev.solution
    /\ Len(solution[2]) = 4

\* C18: after every call of step, frontier_nodes holds exactly the nodes this
\* call added to the frontier; so it is empty after a call that found the goal
\* and after a call on an empty frontier.
C18_FrontierNodesAreThisCallsAdds ==
    [][(mode = "step" /\ searches' = searches) =>
          /\ Range(frontier_nodes') =
                Range(HeldNodes(frontier')) \ Range(HeldNodes(frontier))
          /\ Len(frontier_nodes') = Cardinality(Range(frontier_nodes'))
          /\ (ret' = TRUE \/ Empty(frontier)) => frontier_nodes' = <<>>]_<<pc, ret, frontier, frontier_nodes, num_explored>>

\* C19: once a step call has returned True, or the frontier is empty, further
\* step calls without a solve in between return False and leave solution,
\* solution_found, explored, num_explored and the frontier as they are.
C19_EndedSearchStaysEnded ==
    [][(mode = "step" /\ pc \in {"done", "after"} /\ searches' = searches) =>
          /\ ret' = FALSE
          /\ UNCHANGED <<solution, solution_found, explored, num_explored,
                         frontier>>]_<<pc, ret, frontier, explored, num_explored, solution_found>>

(***************************************************************************)
(* The two search drivers side by side on the same maze and the same       *)
(* strategy: a laberintoFinal.py Maze object advanced by step calls until  *)
(* one returns True or leaves the frontier empty (the Maze fields, with    *)
(* log the nodes its calls removed), and a laberinto.py Maze object inside *)
(* the loop of solve (prev, with visited the nodes its passes removed).    *)
(* The two objects are independent, so their moves interleave freely.      *)
(* laberinto.py itself builds Stack and Queue frontiers only; the loop is  *)
(* also run on the Greedy and A* frontiers of laberintoFinal.py.  The      *)
(* mazes are those of SessionTexts and one text with a short line, on      *)
(* which neighbors raises IndexError.                                      *)
(***************************************************************************)
\* "A \nB"
ShortLineText == << <<"A", " ">>, <<"B">> >>

ModesInit ==
    /\ \E contents \in SessionTexts \cup {ShortLineText} :
          maze_text = contents /\ MazeFresh(MazeInit(contents))
    /\ frontier = None
    /\ mode = "none" /\ pc = "new" /\ ret = FALSE /\ err = "none"
    /\ MainIdle
    /\ ObjectIdle
    /\ log = <<>>

\* the fields of the laberinto.py Maze object a pass of the loop reads and writes
LoopObject(p) ==
    [frontier |-> p.frontier, num_explored |-> p.num_explored,
     explored |-> p.explored, solution |-> p.solution]

\* solve is called on both objects, each with a fresh frontier of the class:
\* laberintoFinal.py's solve returns, laberinto.py's solve reaches its loop
ModesStart(kind) ==
    /\ pc = "new"
    /\ mode' = "modes"
    /\ pc' = "loop"
    /\ SetSearchState(SolveInit(maze, NewFrontier(kind, maze)))
    /\ prev' = [frontier |-> Add(NewFrontier(kind, maze),
                                 Node(maze.start, None, NoAction)),
                num_explored |-> 0, explored |-> {}, solution |-> None,
                pc |-> "loop", ret |-> FALSE, err |-> "none", visited |-> <<>>]
    /\ UNCHANGED <<maze, player_pos, ret, err, solving, solved, move_step, last,
                   stalled, searches, log, maze_text, call>>

\* laberintoFinal.py: one call of step, as in StepCall
ModesStep ==
    /\ mode = "modes" /\ pc = "loop"
    /\ log' = IF Empty(frontier) THEN log ELSE Append(log, Remove(frontier).node)
    /\ \E out \in {Step(maze, SearchState)} :
           /\ SetSearchState(out)
           /\ ret' = out.ret
           /\ err' = out.err
           /\ pc' = IF out.err # "none" THEN "crashed"
                    ELSE IF out.ret \/ Empty(out.frontier) THEN "done" ELSE "loop"
    /\ UNCHANGED <<maze, player_pos, mode, solving, solved, move_step, last,
                   stalled, searches, maze_text, call, prev>>

\* laberinto.py: one pass of the loop of solve, or its return False, as in
\* SolveLoop
ModesLoop ==
    /\ mode = "modes" /\ prev.pc = "loop"
    /\ IF Empty(prev.frontier)
       THEN prev' = [prev EXCEPT !.ret = FALSE, !.pc = "done"]
       ELSE \E out \in {SolveIteration(maze, LoopObject(prev))} :
                prev' = [frontier |-> out.frontier,
                         num_explored |-> out.num_explored,
                         explored |-> out.explored, solution |-> out.solution,
                         pc |-> IF out.err # "none" THEN "crashed"
                                ELSE IF out.done THEN "done" ELSE "loop",
                         ret |-> out.ret, err |-> out.err,
                         visited |-> Append(prev.visited,
                                            Remove(prev.frontier).node)]
    /\ UNCHANGED <<maze, player_pos, solution, num_explored, explored,
                   solution_found, frontier_nodes, frontier, mode, pc, ret, err,
                   solving, solved, move_step, last, stalled, searches, log,
                   maze_text, call>>

ModesNext ==
    \/ \E kind \in FrontierKinds : ModesStart(kind)
    \/ ModesStep
    \/ ModesLoop

SpecModes == ModesInit /\ [][ModesNext]_vars

\* s is the beginning of t
IsPrefix(s, t) == Len(s) <= Len(t) /\ \A i \in 1..Len(s) : s[i] = t[i]

\* C21: step calls after solve, made until one returns True or the frontier is
\* empty, remove the same nodes in the same order as the loop of the
\* run-to-completion solve; a step call returns True on the pass on which the
\* loop returns True and on no other (and raises on the pass on which the loop
\* raises); and both end with the same result, solution, explored set and
\* num_explored.
C21_StepCallsFollowSolveLoop ==
    (mode = "modes") =>
        /\ IsPrefix(log, prev.visited) \/ IsPrefix(prev.visited, log)
        /\ (pc = "done" /\ ret = TRUE /\ Len(prev.visited) >= Len(log)) =>
              (prev.pc = "done" /\ prev.ret = TRUE /\ prev.visited = log)
        /\ (prev.pc = "done" /\ prev.ret = TRUE /\ Len(log) >= Len(prev.visited)) =>
              (pc = "done" /\ ret = TRUE /\ log = prev.visited)
        /\ (pc = "crashed" /\ Len(prev.visited) >= Len(log)) =>
              (prev.pc = "crashed" /\ prev.err = err /\ prev.visited = log)
        /\ (prev.pc = "crashed" /\ Len(log) >= Len(prev.visited)) =>
              (pc = "crashed" /\ err = prev.err /\ log = prev.visited)
        /\ (pc \in {"done", "crashed"} /\ prev.pc \in {"done", "crashed"}) =>
              /\ pc = prev.pc
              /\ log = prev.visited
              /\ (pc = "done") => ret = prev.ret
              /\ solution = prev.solution
              /\ explored = prev.explored
              /\ num_explored = prev.num_explored

\* both drivers have ended the depth-first search of the larger maze with the
\* same nine-move solution after removing the same nodes
C21_Witness ==
    /\ mode = "modes" /\ pc = "done" /\ prev.pc = "done"
    /\ maze_text = LongWayText
    /\ frontier.kind = "Stack"
    /\ ret = TRUE /\ prev.ret = TRUE
    /\ log = prev.visited /\ Len(log) >= 8
    /\ solution = prev.solution
    /\ num_explored = prev.num_explored

(***************************************************************************)
(* The Maze class driven directly: Maze.__init__ on a text, then calls of  *)
(* neighbors and move_player in any order.  The texts are all those of at  *)
(* most MaxTextRows lines of at most MaxTextCols characters with at most   *)
(* MaxTextCells characters in all (lines of different lengths, any number  *)
(* of markers), and the texts of MainTexts.  A call that raises leaves the *)
(* object as it was and the caller goes on.                                *)
(***************************************************************************)
MaxTextRows == 3

MaxTextCols == 3

MaxTextCells == 3

\* "#" stands for every character that is neither blank nor a marker
Chars == {"A", "B", " ", "#"}

\* the line lengths of those texts, line by line
LineLengths ==
    {lens \in UNION {[1..k -> 0..MaxTextCols] : k \in 1..MaxTextRows} :
        \A i \in 1..Len(lens) : lens[i] <= MaxTextCells}

RECURSIVE SumTo(_, _)
SumTo(lens, k) == IF k = 0 THEN 0 ELSE SumTo(lens, k - 1) + lens[k]

\* the characters chars cut into lines of the lengths lens
SplitLines(chars, lens) ==
    [i \in 1..Len(lens) |->
        [j \in 1..lens[i] |-> chars[SumTo(lens, i - 1) + j]]]

\* direction values handed to move_player: the four names, another string, None
MoveInputs == Directions \cup {"jump", NoAction}

MazeClassInit ==
    /\ \/ \E contents \in MainTexts : maze_text = contents
       \/ \E lens \in LineLengths :
             /\ SumTo(lens, Len(lens)) <= MaxTextCells
             /\ \E chars \in [1..SumTo(lens, Len(lens)) -> Chars] :
                    maze_text = SplitLines(chars, lens)
    /\ maze = None
    /\ player_pos = None
    /\ solution = None
    /\ num_explored = 0
    /\ explored = {}
    /\ solution_found = FALSE
    /\ frontier_nodes = <<>>
    /\ frontier = None
    /\ mode = "maze" /\ pc = "new" /\ ret = None /\ err = "none"
    /\ MainIdle
    /\ ObjectIdle
    /\ log = <<>>

\* Maze(filename) on a file holding maze_text
MazeNew ==
    /\ mode = "maze" /\ pc = "new"
    /\ IF MazeInitRaises(maze_text)
       THEN /\ pc' = "crashed" /\ err' = "Exception"
            /\ UNCHANGED <<maze, player_pos>>
       ELSE /\ pc' = "made" /\ err' = "none"
            /\ maze' = MazeInit(maze_text)
            /\ player_pos' = maze'.start
    /\ solution' = None
    /\ num_explored' = 0
    /\ solution_found' = FALSE
    /\ explored' = {}
    /\ frontier_nodes' = <<>>
    /\ UNCHANGED <<frontier, mode, ret, solving, solved, move_step, last, stalled,
                   searches, log, maze_text, call, prev>>

\* maze.neighbors(cell)
NeighborsCall(cell) ==
    /\ mode = "maze" /\ pc = "made"
    /\ call' = [op |-> "neighbors", arg |-> cell]
    /\ IF NeighborsRaises(maze, cell)
       THEN err' = "IndexError" /\ ret' = None
       ELSE err' = "none" /\ ret' = Neighbors(maze, cell)
    /\ UNCHANGED <<maze, player_pos, solution, num_explored, explored,
                   solution_found, frontier_nodes, frontier, mode, pc, solving,
                   solved, move_step, last, stalled, searches, log, maze_text, prev>>

\* maze.move_player(direction)
MovePlayerCall(direction) ==
    /\ mode = "maze" /\ pc = "made"
    /\ call' = [op |-> "move_player", arg |-> direction]
    /\ ret' = None
    /\ IF MovePlayerRaises(maze, player_pos, direction)
       THEN err' = "IndexError" /\ UNCHANGED player_pos
       ELSE err' = "none" /\ player_pos' = MovePlayer(maze, player_pos, direction)
    /\ UNCHANGED <<maze, solution, num_explored, explored, solution_found,
                   frontier_nodes, frontier, mode, pc, solving, solved, move_step,
                   last, stalled, searches, log, maze_text, prev>>

MazeClassNext ==
    \/ MazeNew
    \/ pc = "made" /\ \E cell \in Cells(maze.height, maze.width) : NeighborsCall(cell)
    \/ \E direction \in MoveInputs : MovePlayerCall(direction)

SpecMaze == MazeClassInit /\ [][MazeClassNext]_vars

(***************************************************************************)
(* What the claims about the Maze class are measured against, read off the *)
(* text alone: the grid is as high as the text has lines and as wide as    *)
(* its longest line; a cell holds a character when its line reaches it.    *)
(***************************************************************************)
Positions(t) == UNION {{<<i, j>> : j \in 1..Len(t[i])} : i \in 1..Len(t)}

Occurrences(t, ch) == Cardinality({p \in Positions(t) : t[p[1]][p[2]] = ch})

TextWidth(t) ==
    CHOOSE n \in {Len(t[i]) : i \in 1..Len(t)} : \A i \in 1..Len(t) : Len(t[i]) <= n

Rectangular(t) == \A i \in 1..Len(t) : Len(t[i]) = Len(t[1])

InGrid(t, c) ==
    c[1] \in 0..(Len(t) - 1) /\ c[2] \in 0..(TextWidth(t) - 1)

HasChar(t, c) == InGrid(t, c) /\ c[2] < Len(t[c[1] + 1])

BeyondLine(t, c) == InGrid(t, c) /\ ~HasChar(t, c)

OpenAt(t, c) == HasChar(t, c) /\ t[c[1] + 1][c[2] + 1] \in {" ", "A", "B"}

WallAt(t, c) == HasChar(t, c) /\ t[c[1] + 1][c[2] + 1] \notin {" ", "A", "B"}

FourMoves(cell) ==
    << <<"up", <<cell[1] - 1, cell[2]>> >>, <<"down", <<cell[1] + 1, cell[2]>> >>,
       <<"left", <<cell[1], cell[2] - 1>> >>, <<"right", <<cell[1], cell[2] + 1>> >> >>

\* C11: on every valid maze (lines of equal or of different lengths) and for
\* every cell, neighbors(cell) returns, without raising, the candidates up,
\* down, left, right in that order that are inside the grid and not walls:
\* every open candidate is returned, no candidate outside the grid and no wall
\* is, and nothing else (no diagonal cell) is.
C11_NeighborsAreOpenCandidates ==
    (mode = "maze" /\ call.op = "neighbors") =>
        /\ err = "none"
        /\ LET Returned(cand) == cand \in Range(ret)
           IN  ret = SelectSeq(FourMoves(call.arg), Returned)
        /\ \A k \in 1..4 :
              LET cand == FourMoves(call.arg)[k]
              IN  /\ OpenAt(maze_text, cand[2]) => cand \in Range(ret)
                  /\ (~InGrid(maze_text, cand[2]) \/ WallAt(maze_text, cand[2])) =>
                        cand \notin Range(ret)

\* C12: Maze construction succeeds only when the start marker and the goal
\* marker each occur exactly once in the text; with any other counts it raises
\* and no Maze object is made.
C12_ConstructionNeedsOneStartOneGoal ==
    (mode = "maze" /\ pc # "new") =>
        /\ (pc = "made") <=>
              (Occurrences(maze_text, "A") = 1 /\ Occurrences(maze_text, "B") = 1)
        /\ (pc # "made") => (pc = "crashed" /\ err # "none" /\ maze = None)
        /\ (pc = "made") => maze # None

\* two start markers and one goal marker: the construction raised
C12_Witness ==
    /\ mode = "maze" /\ pc = "crashed" /\ err = "Exception" /\ maze = None
    /\ Occurrences(maze_text, "A") = 2 /\ Occurrences(maze_text, "B") = 1

Shift(pos, direction) ==
    CASE direction = "up" -> <<pos[1] - 1, pos[2]>>
      [] direction = "down" -> <<pos[1] + 1, pos[2]>>
      [] direction = "left" -> <<pos[1], pos[2] - 1>>
      [] direction = "right" -> <<pos[1], pos[2] + 1>>
      [] OTHER -> pos

\* C13: on a rectangular maze every move_player command, whatever the
\* direction value, raises nothing and leaves player_pos on an in-bounds
\* non-wall cell: the cell one step in the direction given when that cell is
\* in bounds and no wall, the cell it was on otherwise.
C13_MovePlayerStaysOnOpenCells ==
    [][(mode = "maze" /\ pc = "made" /\ call'.op = "move_player"
           /\ Rectangular(maze_text)) =>
          LET target == Shift(player_pos, call'.arg)
          IN  /\ err' = "none"
              /\ OpenAt(maze_text, player_pos')
              /\ player_pos' = IF target # player_pos /\ OpenAt(maze_text, target)
                               THEN target ELSE player_pos]_<<call, err, player_pos>>

\* the player walked from the start to the far corner of the example maze and
\* a move up, into the wall above, left it there
C13_Witness ==
    /\ mode = "maze" /\ maze_text = ExampleText
    /\ call = [op |-> "move_player", arg |-> "up"]
    /\ player_pos = <<2, 2>>
    /\ err = "none"

\* C17: on a text whose lines differ in length, a cell inside the grid but
\* beyond the end of its line is not traversable and raises nothing: a call of
\* neighbors that has such a cell among its candidates returns without it, and
\* a call of move_player towards it leaves the player where it was.
C17_CellsBeyondShortLinesAreClosed ==
    [][(mode = "maze" /\ pc = "made") =>
          /\ (call'.op = "neighbors") =>
                \A k \in 1..4 :
                   LET cand == FourMoves(call'.arg)[k]
                   IN  BeyondLine(maze_text, cand[2]) =>
                          (err' = "none" /\ cand \notin Range(ret'))
          /\ (call'.op = "move_player"
                 /\ BeyondLine(maze_text, Shift(player_pos, call'.arg))) =>
                (err' = "none" /\ player_pos' = player_pos)]_<<call, err, player_pos>>

KindOf(text) ==
    CASE text = "dfs" -> "Stack"
      [] text = "bfs" -> "Queue"
      [] text = "greedy" -> "Greedy"
      [] text = "astar" -> "AStar"

\* C6: right after the command "start search with strategy X", for each of the
\* four X, no error was raised and the frontier the step commands will advance
\* is a frontier of strategy X holding the start node and nothing else.
C6_SearchStartsOnFreshFrontierOfStrategy ==
    (mode = "main" /\ last \in SolverTexts) =>
        /\ pc # "crashed"
        /\ err = "none"
        /\ frontier # None
        /\ frontier.kind = KindOf(last)
        /\ HeldNodes(frontier) = <<Node(maze.start, None, NoAction)>>

\* C7: in the animation loop, once step has been called on an empty frontier
\* (the search of an unreachable goal is exhausted), the loop has left
\* Searching: solving is false after that frame.
C7_ExhaustedSearchLeavesSearching ==
    (mode = "main" /\ last = "frame" /\ stalled) => ~solving

====
